---------------------------- MODULE Spec2Model ----------------------------
(***************************************************************************)
(* Model of workout_api/desafio.py: a FastAPI service over a SQLite store  *)
(* (SQLAlchemy sessions) with three tables, a startup seeding hook, a      *)
(* filtered and paginated GET /atletas and a POST /atletas.                *)
(*                                                                         *)
(* Strings that the code inspects (athlete names, cpf values, filter       *)
(* texts, the error detail) are sequences of one-character strings.  An    *)
(* Optional[str] query parameter is a sequence of length 0 (None) or 1.    *)
(*                                                                         *)
(* The store is SQLite as the engine is configured at line 13: no          *)
(* "PRAGMA foreign_keys=ON" is issued, so ForeignKey columns are declared  *)
(* but not enforced; UNIQUE and the single-writer lock are enforced.       *)
(***************************************************************************)
EXTENDS Integers, Sequences, FiniteSets, TLC

\* ------------------------------------------------------------- bounds
\* Number of request-handling threads that may be in flight at once.
NumReq == 2
\* Largest page size (and page number) a GET request is issued with.
MaxSize == 2

Slots == 1..NumReq

\* ------------------------------------------------------------- inputs
\* AtletaCreate(nome, cpf, centro_treinamento_id, categoria_id).
AtletaCreate(nome, cpf, centro, categoria) ==
    [nome |-> nome, cpf |-> cpf,
     centro_treinamento_id |-> centro, categoria_id |-> categoria]

\* The well-formed POST bodies requests are drawn from: two identity
\* numbers, each with a body whose references identify seeded rows (ids
\* 1..3) and a body with a training_center_id or category_id that
\* identifies no row.
Bodies ==
    { AtletaCreate(<<"J", "o">>, <<"1">>, 1, 2),
      AtletaCreate(<<"A", "n">>, <<"1">>, 4, 2),
      AtletaCreate(<<"A", "n">>, <<"2">>, 3, 1),
      AtletaCreate(<<"J", "o">>, <<"2">>, 1, 4) }

\* The slot value of a thread that holds no request.
NoBody == AtletaCreate(<<>>, <<>>, 0, 0)

\* `nome` query parameters: absent, matching in another case, matching
\* nothing, and a text that is a LIKE wildcard.
NomeInputs == { <<>>, << <<"j", "O">> >>, << <<"x">> >>, << <<"_">> >> }
\* `cpf` query parameters: absent, empty, stored and never stored.
CpfInputs == { <<>>, << <<>> >>, << <<"1">> >>, << <<"3">> >> }

\* The query strings GET requests are drawn from: every filter combination
\* on one page wide enough for the whole table, and every page and size
\* without filters.
ListInputs ==
    { [nome |-> n, cpf |-> c, page |-> 1, size |-> MaxSize] :
        n \in NomeInputs, c \in CpfInputs }
    \cup
    { [nome |-> <<>>, cpf |-> <<>>, page |-> p, size |-> s] :
        p \in 1..MaxSize, s \in 1..MaxSize }

\* ------------------------------------------------------------- state
VARIABLES
    running,      \* the process has run its startup hook and serves requests
    centros,      \* table centros_treinamento: set of [id, nome]
    categorias,   \* table categorias: set of [id, nome]
    atletas,      \* table atletas, committed rows in rowid order
    writeLock,    \* 0, or the slot whose transaction holds SQLite's write lock
    pc,           \* per slot: where create_atleta stands
    req,          \* per slot: the AtletaCreate body being handled
    sessions,     \* owners (a slot, or 0 for the startup hook) whose Session is open
    last          \* the most recently completed operation and its response

vars == <<running, centros, categorias, atletas, writeLock, pc, req, sessions, last>>

\* ------------------------------------------------------------- schema
SeedCentros ==
    { [id |-> 1, nome |-> "CT Rio de Janeiro"],
      [id |-> 2, nome |-> "CT São Paulo"],
      [id |-> 3, nome |-> "CT Minas Gerais"] }

SeedCategorias ==
    { [id |-> 1, nome |-> "Junior"],
      [id |-> 2, nome |-> "Pleno"],
      [id |-> 3, nome |-> "Sênior"] }

\* Rows of a table as a set.
Rows(table) == { table[i] : i \in 1..Len(table) }

\* AtletaModel(**atleta.dict()) as the row INSERT stores: the primary key is
\* the next rowid.
AtletaModel(table, body) ==
    [id |-> Len(table) + 1,
     nome |-> body.nome,
     cpf |-> body.cpf,
     centro_treinamento_id |-> body.centro_treinamento_id,
     categoria_id |-> body.categoria_id]

\* Mutant: the cpf column declared without unique=True.
UniqueCpfOk_Missing(table, cpf) == TRUE

\* Column(String, unique=True) on cpf: the INSERT passes the unique index.
UniqueCpfOk(table, cpf) == \A a \in Rows(table) : a.cpf # cpf

\* ForeignKey(...) on the two reference columns as the engine enforces it:
\* the connection never enables foreign-key checking, so every value passes.
ForeignKeyOk(cs, gs, body) == TRUE

\* The INSERT a flush issues raises IntegrityError unless this holds.
InsertOk(table, cs, gs, body) ==
    UniqueCpfOk(table, body.cpf) /\ ForeignKeyOk(cs, gs, body)

\* Mutant: writers that do not exclude each other.
LockFree_Unserialized(lock) == TRUE

\* SQLite admits one writing transaction at a time.
LockFree(lock) == lock = 0

\* relationship("CentroTreinamentoModel"): the rows the lazy load finds.
CentroOf(cs, a) == { c \in cs : c.id = a.centro_treinamento_id }
\* relationship("CategoriaModel"): the rows the lazy load finds.
CategoriaOf(gs, a) == { g \in gs : g.id = a.categoria_id }

\* ---------------------------------------------------------- responses
\* AtletaResponse.from_orm validates: both nested objects are required, a
\* relationship that loads None is rejected.
Serializable(cs, gs, a) == CentroOf(cs, a) # {} /\ CategoriaOf(gs, a) # {}

\* Mutant: the two nested objects filled from each other's relationship.
AtletaResponse_Swapped(cs, gs, a) ==
    [nome |-> a.nome,
     centro_treinamento |-> [nome |-> (CHOOSE g \in CategoriaOf(gs, a) : TRUE).nome],
     categoria |-> [nome |-> (CHOOSE c \in CentroOf(cs, a) : TRUE).nome]]

\* AtletaResponse.from_orm of a row whose relationships load.
AtletaResponse(cs, gs, a) ==
    [nome |-> a.nome,
     centro_treinamento |-> [nome |-> (CHOOSE c \in CentroOf(cs, a) : TRUE).nome],
     categoria |-> [nome |-> (CHOOSE g \in CategoriaOf(gs, a) : TRUE).nome]]

\* status_code of the HTTPException create_atleta raises.
DuplicateStatus == 303

\* The f-string detail: the fixed text followed by the cpf.
DuplicateDetail(cpf) == <<"Já existe um atleta cadastrado com o cpf: ">> \o cpf

\* The HTTPException create_atleta raises on IntegrityError.
DuplicateIdentity(cpf) ==
    [kind |-> "http_exception", status_code |-> DuplicateStatus,
     detail |-> DuplicateDetail(cpf)]

\* A response model that fails to validate surfaces as a server error.
ServerError == [kind |-> "server_error"]
\* A body that is no AtletaCreate is rejected before the handler runs.
ValidationError == [kind |-> "validation_error"]

\* What the route returns for `return db_atleta`.
CreatedResponse(cs, gs, a) ==
    IF Serializable(cs, gs, a)
    THEN [kind |-> "ok", body |-> AtletaResponse(cs, gs, a)]
    ELSE ServerError

\* ------------------------------------------------------------- get_db
\* SessionLocal(): the owner's session is open.
OpenSession(ss, owner) == ss \cup {owner}
\* Mutant: get_db without its finally block.
CloseSession_Leak(ss, owner) == ss

\* The finally block of get_db: db.close() on every exit of the request.
CloseSession(ss, owner) == ss \ {owner}

\* ------------------------------------------------------------ startup
Init ==
    /\ running = FALSE
    /\ centros = {}
    /\ categorias = {}
    /\ atletas = <<>>
    /\ writeLock = 0
    /\ pc = [r \in Slots |-> "idle"]
    /\ req = [r \in Slots |-> NoBody]
    /\ sessions = {}
    /\ last = [op |-> "none"]

\* Mutant: the emptiness test inverted.
SeedNeeded_Inverted(cs) == cs # {}

\* `if not db.query(CentroTreinamentoModel).first()`.
SeedNeeded(cs) == cs = {}

\* startup_event: seed both tables in one transaction when the training
\* centre table is empty, then close the session.
Startup ==
    /\ ~running
    /\ running' = TRUE
    /\ IF SeedNeeded(centros)
       THEN /\ centros' = centros \cup SeedCentros
            /\ categorias' = categorias \cup SeedCategorias
       ELSE UNCHANGED <<centros, categorias>>
    /\ sessions' = CloseSession(OpenSession(sessions, 0), 0)
    /\ last' = [op |-> "startup",
                added |-> Cardinality(centros') - Cardinality(centros)
                          + Cardinality(categorias') - Cardinality(categorias)]
    /\ UNCHANGED <<atletas, writeLock, pc, req>>

\* The process stops once no request is in flight; the store file stays.
Shutdown ==
    /\ running
    /\ \A r \in Slots : pc[r] = "idle"
    /\ running' = FALSE
    /\ last' = [op |-> "none"]
    /\ UNCHANGED <<centros, categorias, atletas, writeLock, pc, req, sessions>>

\* ------------------------------------------------------ POST /atletas
\* A body that fails AtletaCreate validation: the dependency's session is
\* opened and closed, the handler never runs.
CreateMalformed(r) ==
    /\ running
    /\ pc[r] = "idle"
    /\ sessions' = CloseSession(OpenSession(sessions, r), r)
    /\ last' = [op |-> "create", valid |-> FALSE, body |-> NoBody,
                inserted |-> FALSE, resp |-> ValidationError]
    /\ UNCHANGED <<running, centros, categorias, atletas, writeLock, pc, req>>

\* get_db yields a session; AtletaModel(**atleta.dict()); db.add(db_atleta).
CreateAdd(r, body) ==
    /\ running
    /\ pc[r] = "idle"
    /\ sessions' = OpenSession(sessions, r)
    /\ req' = [req EXCEPT ![r] = body]
    /\ pc' = [pc EXCEPT ![r] = "added"]
    /\ UNCHANGED <<running, centros, categorias, atletas, writeLock, last>>

\* db.commit(), first half: the flush begins a transaction, takes the write
\* lock and issues the INSERT, which raises IntegrityError on a violated
\* constraint.
CreateFlush(r) ==
    /\ pc[r] = "added"
    /\ LockFree(writeLock)
    /\ writeLock' = r
    /\ pc' = [pc EXCEPT ![r] =
                IF InsertOk(atletas, centros, categorias, req[r])
                THEN "flushed" ELSE "integrity_error"]
    /\ UNCHANGED <<running, centros, categorias, atletas, req, sessions, last>>

\* db.commit(), second half (COMMIT), then db.refresh, `return db_atleta`,
\* the response model, and get_db's finally.
CreateCommit(r) ==
    /\ pc[r] = "flushed"
    /\ LET row == AtletaModel(atletas, req[r]) IN
        /\ atletas' = Append(atletas, row)
        /\ last' = [op |-> "create", valid |-> TRUE, body |-> req[r],
                    inserted |-> TRUE,
                    resp |-> CreatedResponse(centros, categorias, row)]
    /\ writeLock' = 0
    /\ sessions' = CloseSession(sessions, r)
    /\ pc' = [pc EXCEPT ![r] = "idle"]
    /\ req' = [req EXCEPT ![r] = NoBody]
    /\ UNCHANGED <<running, centros, categorias>>

\* except IntegrityError: db.rollback(); raise HTTPException(303, ...); then
\* get_db's finally.
CreateRollback(r) ==
    /\ pc[r] = "integrity_error"
    /\ writeLock' = 0
    /\ last' = [op |-> "create", valid |-> TRUE, body |-> req[r],
                inserted |-> FALSE, resp |-> DuplicateIdentity(req[r].cpf)]
    /\ sessions' = CloseSession(sessions, r)
    /\ pc' = [pc EXCEPT ![r] = "idle"]
    /\ req' = [req EXCEPT ![r] = NoBody]
    /\ UNCHANGED <<running, centros, categorias, atletas>>

\* ------------------------------------------------------- GET /atletas
\* SQLite's lower(): ASCII letters only.
Lower(c) ==
    CASE c = "J" -> "j"
      [] c = "O" -> "o"
      [] c = "A" -> "a"
      [] c = "N" -> "n"
      [] OTHER -> c

LowerStr(s) == [i \in 1..Len(s) |-> Lower(s[i])]

\* SQLite's LIKE: % matches any run of characters, _ any one character.
RECURSIVE Like(_, _)
Like(pattern, text) ==
    IF pattern = <<>> THEN text = <<>>
    ELSE IF Head(pattern) = "%"
         THEN Like(Tail(pattern), text)
              \/ (text # <<>> /\ Like(pattern, Tail(text)))
         ELSE /\ text # <<>>
              /\ (Head(pattern) = "_" \/ Head(pattern) = Head(text))
              /\ Like(Tail(pattern), Tail(text))

\* AtletaModel.nome.ilike(f"%{nome}%"): lower(nome) LIKE lower('%' || text || '%').
NomeFilter(a, text) == Like(LowerStr(<<"%">> \o text \o <<"%">>), LowerStr(a.nome))

\* AtletaModel.cpf == cpf.
CpfFilter(a, text) == a.cpf = text

\* `if nome:` / `if cpf:` on an Optional[str]: None and "" are both falsy.
Truthy(opt) == opt # <<>> /\ opt[1] # <<>>

\* query.all(): the rows passing the filters the handler added, in rowid
\* order (no ORDER BY: SQLite scans the table).
QueryAll(table, nome, cpf) ==
    SelectSeq(table, LAMBDA a :
        /\ (Truthy(nome) => NomeFilter(a, nome[1]))
        /\ (Truthy(cpf) => CpfFilter(a, cpf[1])))

Min(a, b) == IF a < b THEN a ELSE b

\* ceil(total / size).
Ceil(total, size) == (total + size - 1) \div size

\* paginate(items, params): the page/size/total-pages/total-items envelope.
Paginate(items, page, size) ==
    [items |-> SubSeq(items, (page - 1) * size + 1, Min(page * size, Len(items))),
     total |-> Len(items),
     page |-> page,
     size |-> size,
     pages |-> Ceil(Len(items), size)]

\* Page[AtletaResponse] as the response model of what paginate returned.
PageResponse(cs, gs, paged) ==
    IF \A i \in 1..Len(paged.items) : Serializable(cs, gs, paged.items[i])
    THEN [kind |-> "page",
          items |-> [i \in 1..Len(paged.items) |-> AtletaResponse(cs, gs, paged.items[i])],
          total |-> paged.total, page |-> paged.page,
          size |-> paged.size, pages |-> paged.pages]
    ELSE ServerError

\* The response of get_all_atletas on a store.
get_all_atletas(table, cs, gs, q) ==
    PageResponse(cs, gs, Paginate(QueryAll(table, q.nome, q.cpf), q.page, q.size))

\* GET /atletas: one read under a session of its own.
ListAtletas(r, q) ==
    /\ running
    /\ pc[r] = "idle"
    /\ sessions' = CloseSession(OpenSession(sessions, r), r)
    /\ last' = [op |-> "list",
                resp |-> get_all_atletas(atletas, centros, categorias, q)]
    /\ UNCHANGED <<running, centros, categorias, atletas, writeLock, pc, req>>

Next ==
    \/ Startup
    \/ Shutdown
    \/ \E r \in Slots, q \in ListInputs : ListAtletas(r, q)
    \/ \E r \in Slots : CreateMalformed(r)
    \/ \E r \in Slots, body \in Bodies : CreateAdd(r, body)
    \/ \E r \in Slots : CreateFlush(r)
    \/ \E r \in Slots : CreateCommit(r)
    \/ \E r \in Slots : CreateRollback(r)

Spec == Init /\ [][Next]_vars

\* Each handler runs to completion on its thread: a commit or a rollback that
\* can run does run, and a writer waiting for SQLite's lock gets it once it
\* is free often enough.
FairSpec ==
    /\ Spec
    /\ \A r \in Slots : WF_vars(CreateCommit(r))
    /\ \A r \in Slots : WF_vars(CreateRollback(r))
    /\ \A r \in Slots : SF_vars(CreateFlush(r))

\* ===================================================================
\* Properties
\* ===================================================================
\* `sub` occurs in `s` as a contiguous run.
Contains(s, sub) ==
    \E i \in 1..(Len(s) - Len(sub) + 1) : SubSeq(s, i, i + Len(sub) - 1) = sub

\* Some stored athlete has this identity number.
CpfStored(cpf) == \E i \in 1..Len(atletas) : atletas[i].cpf = cpf

\* Both references of a body identify a row.
RefsExist(body) ==
    /\ \E c \in centros : c.id = body.centro_treinamento_id
    /\ \E g \in categorias : g.id = body.categoria_id

\* The response is the duplicate-identity error naming `cpf`.
IsDuplicateIdentity(resp, cpf) ==
    /\ resp.kind = "http_exception"
    /\ resp.status_code = DuplicateStatus
    /\ Contains(resp.detail, cpf)

\* Slot r leaves control state `at` in this step.
Leaves(r, at) == pc[r] = at /\ pc'[r] # at

\* C1: a create request whose cpf is already stored when its INSERT runs
\* fails with the duplicate-identity error, whose message contains the cpf,
\* and no step of the request changes the athlete table.
C1_DuplicateRejected ==
    [][\A r \in Slots :
        /\ (Leaves(r, "added") /\ CpfStored(req[r].cpf))
              => (pc'[r] = "integrity_error" /\ atletas' = atletas)
        /\ Leaves(r, "integrity_error")
              => /\ atletas' = atletas
                 /\ last'.op = "create"
                 /\ last'.body = req[r]
                 /\ ~last'.inserted
                 /\ IsDuplicateIdentity(last'.resp, req[r].cpf)]_vars

\* C1 witness: a create request was answered with the duplicate-identity
\* error while an athlete with its cpf is stored.
C1_Witness ==
    /\ last.op = "create"
    /\ last.valid
    /\ ~last.inserted
    /\ IsDuplicateIdentity(last.resp, last.body.cpf)
    /\ CpfStored(last.body.cpf)

\* C2: a well-formed create request whose references identify existing rows
\* and whose cpf is not stored when its INSERT runs succeeds: the table
\* grows by exactly one row and the response carries the athlete's name and
\* the names of its training centre and category.
C2_CreateSucceeds ==
    [][\A r \in Slots :
        /\ (Leaves(r, "added") /\ ~CpfStored(req[r].cpf) /\ RefsExist(req[r]))
              => (pc'[r] = "flushed" /\ atletas' = atletas)
        /\ (Leaves(r, "flushed") /\ RefsExist(req[r]))
              => /\ Len(atletas') = Len(atletas) + 1
                 /\ SubSeq(atletas', 1, Len(atletas)) = atletas
                 /\ atletas'[Len(atletas')].cpf = req[r].cpf
                 /\ last'.op = "create"
                 /\ last'.inserted
                 /\ last'.resp.kind = "ok"
                 /\ last'.resp.body.nome = req[r].nome
                 /\ \A c \in centros : c.id = req[r].centro_treinamento_id
                        => last'.resp.body.centro_treinamento.nome = c.nome
                 /\ \A g \in categorias : g.id = req[r].categoria_id
                        => last'.resp.body.categoria.nome = g.nome]_vars

\* C2 witness: a create request with existing references was answered with
\* the created athlete, which is stored.
C2_Witness ==
    /\ last.op = "create"
    /\ last.inserted
    /\ last.resp.kind = "ok"
    /\ RefsExist(last.body)
    /\ CpfStored(last.body.cpf)

\* C3 (as claimed): a create request whose training_center_id or
\* category_id identifies no row fails with the reference-not-found error
\* and stores no athlete.
C3_Claim ==
    (last.op = "create" /\ last.valid /\ ~RefsExist(last.body))
        => (last.resp.kind = "reference_not_found" /\ ~last.inserted)

\* C4: requests racing with the same cpf: the table never holds two athletes
\* with one cpf, a request whose INSERT went through holds a cpf no stored
\* athlete has, at most one request holds the write lock's transaction, and
\* every answered well-formed request that did not insert got the
\* duplicate-identity error while exactly one athlete has its cpf.
C4_OneInsertWins ==
    /\ \A i, j \in 1..Len(atletas) : atletas[i].cpf = atletas[j].cpf => i = j
    /\ \A r \in Slots : pc[r] = "flushed" => ~CpfStored(req[r].cpf)
    /\ \A r1, r2 \in Slots :
          (pc[r1] \in {"flushed", "integrity_error"}
             /\ pc[r2] \in {"flushed", "integrity_error"}) => r1 = r2
    /\ (last.op = "create" /\ last.valid)
          => /\ Cardinality({ i \in 1..Len(atletas) : atletas[i].cpf = last.body.cpf }) = 1
             /\ ~last.inserted => IsDuplicateIdentity(last.resp, last.body.cpf)

\* C4 witness: two requests with the same cpf are in flight together, one
\* holding its INSERT, the other about to issue its own.
C4_Witness ==
    \E r1, r2 \in Slots :
        /\ r1 # r2
        /\ pc[r1] = "flushed"
        /\ pc[r2] = "added"
        /\ req[r1].cpf = req[r2].cpf

\* C5 (as claimed): every stored athlete references an existing training
\* centre and an existing category.
C5_Claim ==
    \A i \in 1..Len(atletas) :
        /\ \E c \in centros : c.id = atletas[i].centro_treinamento_id
        /\ \E g \in categorias : g.id = atletas[i].categoria_id

\* C6 (as claimed): a create request answered with any error has stored no
\* athlete row.
C6_Claim ==
    (last.op = "create" /\ last.resp.kind # "ok") => ~last.inserted

\* All three tables are empty.
StoreEmpty == centros = {} /\ categorias = {} /\ atletas = <<>>

\* C7: a startup on an empty store leaves exactly 3 training centres and 3
\* categories; a startup on a non-empty store changes no table.
C7_Seeding ==
    [][(~running /\ running')
        => IF StoreEmpty
           THEN /\ Cardinality(centros') = 3
                /\ Cardinality(categorias') = 3
                /\ atletas' = atletas
           ELSE /\ centros' = centros
                /\ categorias' = categorias
                /\ atletas' = atletas]_vars

\* C7 witness: a restart ran on a store that already held rows and added
\* none.
C7_Witness ==
    /\ running
    /\ last.op = "startup"
    /\ last.added = 0
    /\ atletas # <<>>
    /\ Cardinality(centros) = 3

\* The unfiltered listing of page p with pages of `size` items.
Listing(p, size) ==
    get_all_atletas(atletas, centros, categorias,
                    [nome |-> <<>>, cpf |-> <<>>, page |-> p, size |-> size])

\* C8 (as claimed): without filters, the N stored athletes are listed on
\* exactly ceil(N/size) pages of at most `size` items, and the pages
\* together hold every athlete once.
C8_Claim ==
    \A size \in 1..MaxSize :
        LET n == Len(atletas)
            pages == Ceil(n, size)
        IN /\ Listing(1, size).kind = "page"
           /\ Listing(1, size).pages = pages
           /\ Listing(1, size).total = n
           /\ \A p \in 1..pages :
                 /\ Listing(p, size).kind = "page"
                 /\ Len(Listing(p, size).items) <= size
                 /\ Len(Listing(p, size).items) = Min(size, n - (p - 1) * size)
           /\ \A k \in 1..n :
                 LET p == ((k - 1) \div size) + 1
                     i == ((k - 1) % size) + 1
                 IN Listing(p, size).items[i].nome = atletas[k].nome

\* The store holds no athlete with a dangling reference.
StoreIntact ==
    \A i \in 1..Len(atletas) : Serializable(centros, categorias, atletas[i])

\* C8 restricted to stores without dangling references.
C8_OnIntactStore == StoreIntact => C8_Claim

\* `text` occurs in `name`, letter case ignored.
ContainsIgnoringCase(name, text) == Contains(LowerStr(name), LowerStr(text))

\* The athletes a listing with these filters is claimed to return.
Matching(nome, cpf) ==
    SelectSeq(atletas, LAMBDA a :
        /\ (nome # <<>> => ContainsIgnoringCase(a.nome, nome[1]))
        /\ (cpf # <<>> => a.cpf = cpf[1]))

\* C9 (as claimed): a listing returns exactly the stored athletes whose
\* name contains `nome` (case ignored) when provided and whose cpf equals
\* `cpf` when provided.
C9_Claim ==
    \A nome \in NomeInputs, cpf \in CpfInputs :
        LET resp == get_all_atletas(atletas, centros, categorias,
                        [nome |-> nome, cpf |-> cpf, page |-> 1,
                         size |-> Len(atletas) + 1])
            want == Matching(nome, cpf)
        IN resp.kind = "page"
             => /\ resp.total = Len(want)
                /\ Len(resp.items) = Len(want)
                /\ \A i \in 1..Len(want) : resp.items[i].nome = want[i].nome

\* C10: a session is never open for a thread that handles no request nor
\* for the startup hook once it has run, and every session a request opens
\* is eventually closed.
C10_SessionsReleased ==
    /\ [](\A r \in Slots : pc[r] = "idle" => r \notin sessions)
    /\ [](0 \notin sessions)
    /\ \A r \in Slots : (r \in sessions) ~> (r \notin sessions)

\* C10 witness: a request that failed on the constraint has its session
\* open and its transaction not yet rolled back.
C10_Witness ==
    \E r \in Slots : pc[r] = "integrity_error" /\ r \in sessions

=============================================================================
